---------------------------- MODULE Spec2Model ----------------------------
(***************************************************************************)
(* Sentinel-2 crop stress detection API (src/app.py).                      *)
(*                                                                         *)
(* NDVI values are modelled in hundredths: the float 0.2 is the integer    *)
(* 20, the range [-1, 1] is -100 .. 100.  A Python value that may be None  *)
(* or unset is a sequence of length at most one: <<>> is None, <<v>> is v. *)
(* A Python dict is a function whose domain is its set of keys.            *)
(***************************************************************************)
EXTENDS Integers, Sequences, FiniteSets, TLC

VARIABLES phase, ee_initialized, frame, arg, ret

vars == <<phase, ee_initialized, frame, arg, ret>>

-----------------------------------------------------------------------------
(* Bounds of the model *)

NumRequests == 2
MaxScenes == 1
Today == 200

(* Program constants *)

DefaultBuffer == 50
DefaultDays == 90
DefaultCloud == 20
DefaultWidth == 800
DefaultHeight == 600
LatMax == 90
LonMax == 180
ThumbWidth == 800
ThumbHeight == 600
JpegQuality == 95
T02 == 20
T04 == 40
T06 == 60
T08 == 80

Requests == 1 .. NumRequests

None == <<>>
Some(v) == <<v>>

-----------------------------------------------------------------------------
(* Exceptions and their translation at the three except clauses *)

HTTPException(status_code, detail) ==
    [type |-> "HTTPException", status_code |-> status_code, detail |-> detail]

PyException(type, detail) ==
    [type |-> type, status_code |-> 0, detail |-> detail]

StatusText(code) ==
    CASE code = 400 -> "400"
      [] code = 404 -> "404"
      [] code = 500 -> "500"
      [] OTHER -> "?"

\* str(e): an HTTPException prints as "<status_code>: <detail>"; the status
\* of the translated exception does not depend on this text
Str(e) ==
    IF e.type = "HTTPException"
    THEN <<StatusText(e.status_code), ": ">> \o e.detail
    ELSE e.detail

\* get_ndvi_image_url: except Exception as e -> HTTPException(500, ...)
ExtractExcept(e) ==
    HTTPException(500, <<"Error processing NDVI: ">> \o Str(e))

\* download_and_convert_image: except Exception as e -> HTTPException(500, ...)
ImageExcept(e) ==
    HTTPException(500, <<"Error processing image: ">> \o Str(e))

\* faulty variant of EndpointExcept: the failure is answered as a success
EndpointExceptSwallow(e) ==
    HTTPException(200, <<"fallback">>)

\* the endpoints: except HTTPException: raise / except Exception -> 500
EndpointExcept(e) ==
    IF e.type = "HTTPException" THEN e
    ELSE HTTPException(500, <<"Internal server error: ">> \o Str(e))

-----------------------------------------------------------------------------
(* The imagery catalog: scenes, and the filter of lines 52-55 *)

\* ee.Geometry.Point([lon, lat]).buffer(buffer_distance).bounds()
AreaOfInterest(lat, lon, buffer_distance) ==
    [lat |-> lat, lon |-> lon, buffer |-> buffer_distance]

\* start = end - timedelta(days=days_back), end = date.today()
TimeWindow(today, days_back) ==
    [start |-> today - days_back, end |-> today]

\* filterBounds(aoi), filterDate(start, end) with end exclusive, and
\* CLOUDY_PIXEL_PERCENTAGE strictly below the threshold
FilterCollection(catalog, aoi, window, cloud_threshold) ==
    {s \in catalog :
        /\ <<aoi.lat, aoi.lon>> \in s.footprint
        /\ window.start <= s.date /\ s.date < window.end
        /\ s.cloud < cloud_threshold}

\* "B8" not in band_names or "B4" not in band_names
BandsMissing(band_names) ==
    "B8" \notin band_names \/ "B4" \notin band_names

-----------------------------------------------------------------------------
(* Statistics dictionaries and the classification of lines 190-221 *)

StatKeys == {"NDVI_mean", "NDVI_min", "NDVI_max", "NDVI_stdDev"}

\* dict.get(key, default): the default is used only for an absent key
Get(d, key, default) ==
    IF key \in DOMAIN d THEN d[key] ELSE Some(default)

\* faulty variant of HealthStatus: the first threshold compared with <=
HealthStatusLe(mean_ndvi) ==
    IF mean_ndvi <= T02 THEN "Severe Stress / Bare Soil"
    ELSE IF mean_ndvi < T04 THEN "Stressed Vegetation"
    ELSE IF mean_ndvi < T06 THEN "Moderate Health"
    ELSE IF mean_ndvi < T08 THEN "Healthy"
    ELSE "Very Healthy"

\* the if / elif chain over a numeric mean
HealthStatus(mean_ndvi) ==
    IF mean_ndvi < T02 THEN "Severe Stress / Bare Soil"
    ELSE IF mean_ndvi < T04 THEN "Stressed Vegetation"
    ELSE IF mean_ndvi < T06 THEN "Moderate Health"
    ELSE IF mean_ndvi < T08 THEN "Healthy"
    ELSE "Very Healthy"

\* None < 0.2 raises TypeError; a number is classified
Interpret(ndvi_stats) ==
    LET mean_ndvi == Get(ndvi_stats, "NDVI_mean", 0)
    IN  IF mean_ndvi = None
        THEN [ok |-> FALSE,
              err |-> PyException("TypeError",
                         <<"'<' not supported between NoneType and float">>)]
        ELSE [ok |-> TRUE,
              mean_ndvi |-> mean_ndvi,
              health_status |-> HealthStatus(mean_ndvi[1])]

\* NDVIResponse(status="success", ...)
StatsRecord(request, ndvi_stats, mean_ndvi, health_status) ==
    [status |-> "success",
     location |-> [latitude |-> request.latitude,
                   longitude |-> request.longitude,
                   buffer_distance_m |-> request.buffer_distance],
     ndvi_stats |-> [mean_ndvi |-> mean_ndvi,
                     min_ndvi |-> Get(ndvi_stats, "NDVI_min", 0),
                     max_ndvi |-> Get(ndvi_stats, "NDVI_max", 0),
                     std_ndvi |-> Get(ndvi_stats, "NDVI_stdDev", 0),
                     health_status |-> health_status,
                     analysis_period_days |-> request.days_back]]

-----------------------------------------------------------------------------
(* Images: decode, convert, resize, save (lines 105-120) *)

Modes == {"RGB", "RGBA", "P", "L"}

\* modes the JPEG encoder writes
JpegModes == {"RGB", "L"}

\* Image.open: the picture as decoded; box is the part of the decoded
\* picture the pixels show, resampled whether a filter has been applied
Decoded(w, h, mode) ==
    [w |-> w, h |-> h, mode |-> mode, box |-> <<w, h>>, resampled |-> FALSE]

\* if img.mode != 'RGB': img = img.convert('RGB')
ConvertRGB(img) ==
    IF img.mode # "RGB" THEN [img EXCEPT !.mode = "RGB"] ELSE img

\* img.resize raises ValueError unless both sides are positive
ResizeRaises(img, width, height) ==
    <<img.w, img.h>> # <<width, height>> /\ (width < 1 \/ height < 1)

\* faulty variant of Resize: only the width is compared
ResizeWidthOnly(img, width, height) ==
    IF img.w # width
    THEN [img EXCEPT !.w = width, !.h = height, !.resampled = TRUE]
    ELSE img

\* if img.size != (width, height): img = img.resize(..., LANCZOS)
Resize(img, width, height) ==
    IF <<img.w, img.h>> # <<width, height>>
    THEN [img EXCEPT !.w = width, !.h = height, !.resampled = TRUE]
    ELSE img

\* number of bytes written for a picture: positive, opaque otherwise
EncodedLength(img) == 2 + img.w * img.h

\* img.save(output, format='JPEG', quality=95) leaves the stream at its end
Save(img) ==
    [format |-> "JPEG", quality |-> JpegQuality, image |-> img,
     length |-> EncodedLength(img), pos |-> EncodedLength(img)]

\* output.seek(0)
Seek(stream, offset) == [stream EXCEPT !.pos = offset]

\* lines 105-120 on the downloaded content; encode_fails is the encoder's
\* own failure (memory, I/O)
ConvertImage(content, width, height, encode_fails) ==
    IF ~content.decodable
    THEN [ok |-> FALSE,
          err |-> PyException("UnidentifiedImageError",
                              <<"cannot identify image file">>)]
    ELSE LET img1 == ConvertRGB(Decoded(content.w, content.h, content.mode))
         IN  IF ResizeRaises(img1, width, height)
             THEN [ok |-> FALSE,
                   err |-> PyException("ValueError",
                               <<"height and width must be > 0">>)]
             ELSE LET img2 == Resize(img1, width, height)
                  IN  IF encode_fails \/ img2.mode \notin JpegModes
                      THEN [ok |-> FALSE,
                            err |-> PyException("OSError",
                                        <<"cannot write JPEG">>)]
                      ELSE [ok |-> TRUE, output |-> Seek(Save(img2), 0)]

\* download_and_convert_image: net is what the network and the encoder do
\* (outcome of requests.get, the content served, an encoder failure)
DownloadAndConvertImage(net, width, height) ==
    IF net.outcome = "timeout"
    THEN [ok |-> FALSE,
          err |-> ImageExcept(PyException("Timeout", <<"timed out">>))]
    ELSE IF net.outcome = "status"
    THEN [ok |-> FALSE,
          err |-> ImageExcept(PyException("HTTPError", <<"bad status">>))]
    ELSE LET res == ConvertImage(net.content, width, height,
                                 net.encode_fails)
         IN  IF res.ok THEN res
             ELSE [ok |-> FALSE, err |-> ImageExcept(res.err)]

-----------------------------------------------------------------------------
(* Responses *)

ErrorResponse(e) ==
    [status_code |-> e.status_code, detail |-> Some(e.detail),
     body |-> None, x_ndvi_stats |-> None, record |-> None]

\* StreamingResponse(jpeg_image, media_type="image/jpeg", headers=...)
ImageResponse(jpeg_image, ndvi_stats) ==
    [status_code |-> 200, detail |-> None,
     body |-> Some(jpeg_image), x_ndvi_stats |-> Some(ndvi_stats),
     record |-> None]

StatsResponse(record) ==
    [status_code |-> 200, detail |-> None,
     body |-> None, x_ndvi_stats |-> None, record |-> Some(record)]

-----------------------------------------------------------------------------
(* The state of one request: its position and the locals of its frames.   *)
(* calls lists the provider operations and downloads it has issued,       *)
(* answers what the provider and the network gave back, raised the        *)
(* exceptions raised by a step.                                           *)

IdleFrame ==
    [pc |-> "idle", request |-> None, size |-> None, band_names |-> None,
     ndvi_stats |-> None, image_url |-> None, fetched |-> None,
     calls |-> <<>>, answers |-> <<>>, raised |-> <<>>, response |-> None]

\* the handler ends: the response is sent and nothing more runs
Finish(f, response) ==
    [f EXCEPT !.pc = "done", !.response = Some(response)]

\* an exception raised in the body of get_ndvi_image_url
RaiseInExtract(f, e) ==
    Finish([f EXCEPT !.raised = Append(@, e)],
           ErrorResponse(EndpointExcept(ExtractExcept(e))))

\* an exception raised in the body of an endpoint
RaiseInEndpoint(f, e) ==
    Finish([f EXCEPT !.raised = Append(@, e)],
           ErrorResponse(EndpointExcept(e)))

EEException == PyException("EEException", <<"remote computation failed">>)

\* a remote operation is issued and answers
Called(f, names, answer) ==
    [f EXCEPT !.calls = @ \o names, !.answers = Append(@, answer)]

-----------------------------------------------------------------------------
(* The steps of a request, each from one remote call to the next *)

\* a LocationRequest arrives at one of the two POST endpoints
Arrive(request) ==
    [IdleFrame EXCEPT !.pc = "validate", !.request = Some(request)]

\* faulty variant of LatitudeValid: the upper bound is exclusive
LatitudeValidStrict(latitude) == -LatMax <= latitude /\ latitude < LatMax

\* -90 <= request.latitude <= 90
LatitudeValid(latitude) == -LatMax <= latitude /\ latitude <= LatMax

\* -180 <= request.longitude <= 180
LongitudeValid(longitude) == -LonMax <= longitude /\ longitude <= LonMax

\* lines 139-142 and 176-179
ValidateStep(f) ==
    LET request == f.request[1]
    IN  IF ~LatitudeValid(request.latitude)
        THEN RaiseInEndpoint(f, HTTPException(400,
                 <<"Invalid latitude. Must be between -90 and 90">>))
        ELSE IF ~LongitudeValid(request.longitude)
        THEN RaiseInEndpoint(f, HTTPException(400,
                 <<"Invalid longitude. Must be between -180 and 180">>))
        ELSE [f EXCEPT !.pc = "query"]

\* the provider's answer to s2_collection.size().getInfo()
SizeInfo(catalog, request) ==
    Cardinality(FilterCollection(catalog,
        AreaOfInterest(request.latitude, request.longitude,
                       request.buffer_distance),
        TimeWindow(Today, request.days_back),
        request.cloud_threshold))

\* lines 44-58: the collection is built and its size fetched
QueryStep(f0, answer) ==
    LET f == Called(f0, <<"size">>, answer)
    IN  IF answer.fails THEN RaiseInExtract(f, EEException)
        ELSE IF answer.value = 0
        THEN RaiseInExtract([f EXCEPT !.size = Some(answer.value)],
               HTTPException(404,
                 <<"No suitable Sentinel-2 images found for the specified criteria">>))
        ELSE [f EXCEPT !.pc = "bands", !.size = Some(answer.value)]

\* lines 60-64: the median composite, clipped, and its band names
BandNamesStep(f0, answer) ==
    LET f == Called(f0, <<"median", "bandNames">>, answer)
    IN  IF answer.fails THEN RaiseInExtract(f, EEException)
        ELSE IF BandsMissing(answer.value)
        THEN RaiseInExtract([f EXCEPT !.band_names = Some(answer.value)],
               HTTPException(400,
                 <<"Required bands (B4 and B8) not found in the image">>))
        ELSE [f EXCEPT !.pc = "reduce", !.band_names = Some(answer.value)]

\* lines 67-79: the index and its statistics over the area
ReduceStep(f0, answer) ==
    LET f == Called(f0, <<"normalizedDifference", "reduceRegion">>, answer)
    IN  IF answer.fails THEN RaiseInExtract(f, EEException)
        ELSE [f EXCEPT !.pc = "thumb", !.ndvi_stats = Some(answer.value)]

\* faulty variant of AfterExtract: the stats endpoint downloads as well
AfterExtractDownload(op) == "download"

\* where an endpoint goes on after get_ndvi_image_url has returned
AfterExtract(op) == IF op = "image" THEN "download" ELSE "classify"

\* lines 82-93: the thumbnail reference; the helper returns
ThumbStep(f0, answer) ==
    LET f == Called(f0, <<"getThumbURL">>, answer)
    IN  IF answer.fails THEN RaiseInExtract(f, EEException)
        ELSE [f EXCEPT !.pc = AfterExtract(f.request[1].op),
                       !.image_url = Some(answer.value)]

\* lines 190-221 of get_ndvi_stats
ClassifyStep(f) ==
    LET ndvi_stats == f.ndvi_stats[1]
        res == Interpret(ndvi_stats)
    IN  IF ~res.ok THEN RaiseInEndpoint(f, res.err)
        ELSE Finish(f, StatsResponse(
               StatsRecord(f.request[1], ndvi_stats,
                           res.mean_ndvi, res.health_status)))

\* lines 101-120 and 157-164: download, decode, convert, resize, encode,
\* respond
DownloadStep(f0, net) ==
    LET f == [Called(f0, <<"requests.get">>, net)
                EXCEPT !.fetched = f0.image_url]
        request == f.request[1]
        res == DownloadAndConvertImage(net, request.image_width,
                                       request.image_height)
    IN  IF ~res.ok THEN RaiseInEndpoint(f, res.err)
        ELSE Finish(f, ImageResponse(res.output, f.ndvi_stats[1]))

-----------------------------------------------------------------------------
(* Module initialization, lines 15-21 *)

\* ee.Initialize(credentials) at import; the app serves only afterwards
Load ==
    /\ phase = "loading"
    /\ \E ok \in BOOLEAN :
         IF ok
         THEN /\ ee_initialized' = ee_initialized + 1
              /\ phase' = "serving"
         ELSE /\ ee_initialized' = ee_initialized
              /\ phase' = "failed"
    /\ UNCHANGED <<frame, arg, ret>>

-----------------------------------------------------------------------------
(* The actions: request r takes one step.  E is the environment: the      *)
(* requests clients send and the answers the provider and the network     *)
(* give.  Every local of a handler lives in its own frame.                *)

\* faulty variant of Store: the statistics are kept in one module-level
\* variable that every handler reads
StoreShared(frames, r, f) ==
    [q \in DOMAIN frames |->
       IF q = r THEN f
       ELSE IF frames[q].ndvi_stats # None /\ f.ndvi_stats # None
       THEN [frames[q] EXCEPT !.ndvi_stats = f.ndvi_stats]
       ELSE frames[q]]

Store(frames, r, f) == [frames EXCEPT ![r] = f]

Start(r, E) ==
    /\ phase = "serving"
    /\ frame[r].pc = "idle"
    /\ \E request \in E.requests : frame' = Store(frame, r, Arrive(request))
    /\ UNCHANGED <<phase, ee_initialized, arg, ret>>

Validate(r) ==
    /\ frame[r].pc = "validate"
    /\ frame' = Store(frame, r, ValidateStep(frame[r]))
    /\ UNCHANGED <<phase, ee_initialized, arg, ret>>

Query(r, E) ==
    /\ frame[r].pc = "query"
    /\ \E catalog \in E.catalogs, fails \in BOOLEAN :
         frame' = Store(frame, r, QueryStep(frame[r],
                    [fails |-> fails,
                     value |-> IF fails THEN 0
                               ELSE SizeInfo(catalog, frame[r].request[1])]))
    /\ UNCHANGED <<phase, ee_initialized, arg, ret>>

BandNames(r, E) ==
    /\ frame[r].pc = "bands"
    /\ \E band_names \in E.bandsets, fails \in BOOLEAN :
         frame' = Store(frame, r, BandNamesStep(frame[r],
                    [fails |-> fails,
                     value |-> IF fails THEN {} ELSE band_names]))
    /\ UNCHANGED <<phase, ee_initialized, arg, ret>>

Reduce(r, E) ==
    /\ frame[r].pc = "reduce"
    /\ \E ndvi_stats \in E.stats, fails \in BOOLEAN :
         frame' = Store(frame, r, ReduceStep(frame[r],
                    [fails |-> fails,
                     value |-> IF fails THEN <<>> ELSE ndvi_stats]))
    /\ UNCHANGED <<phase, ee_initialized, arg, ret>>

Thumb(r, E) ==
    /\ frame[r].pc = "thumb"
    /\ \E image_url \in E.refs, fails \in BOOLEAN :
         frame' = Store(frame, r, ThumbStep(frame[r],
                    [fails |-> fails,
                     value |-> IF fails THEN "" ELSE image_url]))
    /\ UNCHANGED <<phase, ee_initialized, arg, ret>>

Classify(r) ==
    /\ frame[r].pc = "classify"
    /\ frame' = Store(frame, r, ClassifyStep(frame[r]))
    /\ UNCHANGED <<phase, ee_initialized, arg, ret>>

Download(r, E) ==
    /\ frame[r].pc = "download"
    /\ \E net \in E.nets :
         frame' = Store(frame, r, DownloadStep(frame[r], net))
    /\ UNCHANGED <<phase, ee_initialized, arg, ret>>

-----------------------------------------------------------------------------
(* Environments *)

Ops == {"image", "stats"}

\* the four corners of the valid range and their neighbours outside it
Coords ==
    {<<-LatMax, -LonMax>>, <<LatMax, LonMax>>,
     <<-LatMax - 1, -LonMax>>, <<LatMax + 1, LonMax>>,
     <<-LatMax, -LonMax - 1>>, <<LatMax, LonMax + 1>>,
     <<LatMax + 5, LonMax + 20>>}

ValidPoints ==
    {c \in Coords : LatMax >= c[1] /\ c[1] >= -LatMax
                    /\ LonMax >= c[2] /\ c[2] >= -LonMax}

Sizes ==
    {<<DefaultWidth, DefaultHeight>>, <<DefaultHeight, DefaultHeight>>,
     <<0, DefaultHeight>>}

RequestsOver(ops, coords, days, clouds, sizes) ==
    {[op |-> op, latitude |-> c[1], longitude |-> c[2],
      buffer_distance |-> DefaultBuffer, days_back |-> d,
      cloud_threshold |-> ct, image_width |-> sz[1], image_height |-> sz[2]] :
        op \in ops, c \in coords, d \in days, ct \in clouds, sz \in sizes}

SceneUniverse ==
    [date : {Today, Today - 1, Today - DefaultDays - 1},
     cloud : {DefaultCloud - 1, DefaultCloud},
     footprint : {ValidPoints, {<<LatMax, LonMax>>}}]

Catalogs == {c \in SUBSET SceneUniverse : Cardinality(c) <= MaxScenes}

OtherBands == {"B2", "B3"}

BandSets == {b \cup OtherBands : b \in SUBSET {"B4", "B8"}}

StatValues == {-40, 30, 90}

Number(d, key) == key \in DOMAIN d /\ d[key] # None

\* what a reduction over one set of pixels can give for the entries that
\* carry a number: min <= mean <= max, a deviation >= 0, the index in [-1, 1]
Consistent(d) ==
    /\ \A k \in DOMAIN d : d[k] # None => d[k][1] >= -100 /\ d[k][1] <= 100
    /\ Number(d, "NDVI_stdDev") => d["NDVI_stdDev"][1] >= 0
    /\ Number(d, "NDVI_min") /\ Number(d, "NDVI_mean")
         => d["NDVI_min"][1] <= d["NDVI_mean"][1]
    /\ Number(d, "NDVI_mean") /\ Number(d, "NDVI_max")
         => d["NDVI_mean"][1] <= d["NDVI_max"][1]
    /\ Number(d, "NDVI_min") /\ Number(d, "NDVI_max")
         => d["NDVI_min"][1] <= d["NDVI_max"][1]

\* the dictionaries reduceRegion(...).getInfo() can return: any of the four
\* entries may be absent, or present with the value None (no unmasked pixel)
StatsResults ==
    {d \in UNION {[K -> {None} \cup {Some(v) : v \in StatValues}] :
                    K \in SUBSET StatKeys} : Consistent(d)}

Refs == {"thumb/1", "thumb/2"}

NoContent == [decodable |-> FALSE, w |-> 0, h |-> 0, mode |-> "RGB"]

\* what the thumbnail URL serves: a picture within 800x600, or no picture
Contents ==
    {NoContent,
     [decodable |-> TRUE, w |-> ThumbWidth, h |-> ThumbHeight, mode |-> "RGBA"],
     [decodable |-> TRUE, w |-> ThumbHeight, h |-> ThumbHeight, mode |-> "P"]}

NetsOver(contents) ==
    [outcome : {"timeout", "status"}, content : {NoContent},
     encode_fails : {FALSE}]
    \cup [outcome : {"ok"}, content : contents, encode_fails : BOOLEAN]

Env ==
    [requests |-> RequestsOver(Ops, Coords, {DefaultDays, DefaultDays + 1},
                               {DefaultCloud, DefaultCloud + 1}, Sizes),
     catalogs |-> Catalogs, bandsets |-> BandSets, stats |-> StatsResults,
     refs |-> Refs, nets |-> NetsOver(Contents)]

-----------------------------------------------------------------------------
(* One process serving one request at a time *)

Init ==
    /\ phase = "loading"
    /\ ee_initialized = 0
    /\ frame = [r \in Requests |-> IdleFrame]
    /\ arg = None
    /\ ret = None

Next ==
    \/ Load
    \/ Start(1, Env)
    \/ Validate(1)
    \/ Query(1, Env)
    \/ BandNames(1, Env)
    \/ Reduce(1, Env)
    \/ Thumb(1, Env)
    \/ Classify(1)
    \/ Download(1, Env)

Spec == Init /\ [][Next]_vars

-----------------------------------------------------------------------------
(* Several requests in flight at once *)

MatchingScene ==
    [date |-> Today - 1, cloud |-> DefaultCloud - 1, footprint |-> ValidPoints]

FullStats ==
    [k \in StatKeys |-> IF k = "NDVI_stdDev" THEN Some(30) ELSE Some(90)]

MaskedStats == [k \in StatKeys |-> None]

ConcEnv ==
    [requests |-> RequestsOver(Ops, {<<LatMax, LonMax>>, <<LatMax + 1, LonMax>>},
                               {DefaultDays}, {DefaultCloud},
                               {<<DefaultWidth, DefaultHeight>>}),
     catalogs |-> {{}, {MatchingScene}},
     bandsets |-> {OtherBands \cup {"B4", "B8"}, OtherBands \cup {"B4"}},
     stats |-> {FullStats, MaskedStats},
     refs |-> Refs,
     nets |-> NetsOver({[decodable |-> TRUE, w |-> ThumbHeight,
                         h |-> ThumbHeight, mode |-> "P"]})]

NextConc ==
    \/ Load
    \/ \E r \in Requests :
         \/ Start(r, ConcEnv)
         \/ Validate(r)
         \/ Query(r, ConcEnv)
         \/ BandNames(r, ConcEnv)
         \/ Reduce(r, ConcEnv)
         \/ Thumb(r, ConcEnv)
         \/ Classify(r)
         \/ Download(r, ConcEnv)

SpecConc == Init /\ [][NextConc]_vars

-----------------------------------------------------------------------------
(* The classification alone, over every mean in [-1, 1] *)

InitClassify ==
    /\ phase = "serving"
    /\ ee_initialized = 1
    /\ frame = [r \in Requests |-> IdleFrame]
    /\ arg \in {Some([NDVI_mean |-> Some(m)]) : m \in -100 .. 100}
    /\ ret = None

ApplyInterpret ==
    /\ ret = None
    /\ ret' = Some(Interpret(arg[1]))
    /\ UNCHANGED <<phase, ee_initialized, frame, arg>>

SpecClassify == InitClassify /\ [][ApplyInterpret]_vars

-----------------------------------------------------------------------------
(* download_and_convert_image alone, over pictures of any size and mode *)

AnyContents ==
    {NoContent} \cup [decodable : {TRUE}, w : {1, ThumbHeight, ThumbWidth},
                      h : {ThumbHeight, ThumbWidth}, mode : Modes]

InitNormalize ==
    /\ phase = "serving"
    /\ ee_initialized = 1
    /\ frame = [r \in Requests |-> IdleFrame]
    /\ arg \in {Some([net |-> n, width |-> w, height |-> h]) :
                  n \in NetsOver(AnyContents),
                  w \in {0, DefaultHeight, DefaultWidth},
                  h \in {DefaultHeight, DefaultWidth}}
    /\ ret = None

ApplyDownloadAndConvert ==
    /\ ret = None
    /\ ret' = Some(DownloadAndConvertImage(arg[1].net, arg[1].width,
                                           arg[1].height))
    /\ UNCHANGED <<phase, ee_initialized, frame, arg>>

SpecNormalize == InitNormalize /\ [][ApplyDownloadAndConvert]_vars

-----------------------------------------------------------------------------
(* Properties *)

Resp(f) == f.response[1]
Done(r) == frame[r].pc = "done"
Op(r) == frame[r].request[1].op

NoSuitableImages ==
    <<"No suitable Sentinel-2 images found for the specified criteria">>
RequiredBandsNotFound ==
    <<"Required bands (B4 and B8) not found in the image">>
InvalidLatitude == <<"Invalid latitude. Must be between -90 and 90">>
InvalidLongitude == <<"Invalid longitude. Must be between -180 and 180">>

Labels ==
    {"Severe Stress / Bare Soil", "Stressed Vegetation", "Moderate Health",
     "Healthy", "Very Healthy"}

Range(seq) == {seq[i] : i \in DOMAIN seq}
IndexOf(seq, x) == CHOOSE i \in DOMAIN seq : seq[i] = x
NoDuplicates(seq) == \A i, j \in DOMAIN seq : seq[i] = seq[j] => i = j

\* C1: whenever the filtered collection is empty the request ends in the
\* NoImageryFound failure (status 404, "No suitable ... images"), distinct
\* from the generic computation failure, and neither the composite, the band
\* check, the index, the reduction nor the thumbnail is executed.
C1_EmptyCollectionEndsInNoImageryFound ==
    \A r \in Requests :
        Done(r) /\ frame[r].size = Some(0)
        => /\ Resp(frame[r]).status_code = 404
           /\ Resp(frame[r]).detail = Some(NoSuitableImages)
           /\ frame[r].calls = <<"size">>

\* C2: whenever the composite lacks B8 or B4 the request fails with
\* MissingRequiredBands (status 400, a client error distinct from the generic
\* computation failure), before the index, the reduction and the thumbnail.
C2_MissingBandsEndsInMissingRequiredBands ==
    \A r \in Requests :
        /\ Done(r)
        /\ frame[r].band_names # None
        /\ ("B8" \notin frame[r].band_names[1]
              \/ "B4" \notin frame[r].band_names[1])
        => /\ Resp(frame[r]).status_code = 400
           /\ Resp(frame[r]).detail = Some(RequiredBandsNotFound)
           /\ Range(frame[r].calls) \cap
                {"normalizedDifference", "reduceRegion", "getThumbURL",
                 "requests.get"} = {}

OutOfRange(request) ==
    \/ request.latitude < -LatMax \/ request.latitude > LatMax
    \/ request.longitude < -LonMax \/ request.longitude > LonMax

\* C3: a request whose latitude is outside [-90, 90] or whose longitude is
\* outside [-180, 180] never issues a remote call and ends with status 400
\* and an "Invalid latitude / longitude" message; a request within the
\* bounds, the bounds included, is never rejected that way and goes on to
\* the catalog query.
C3_InvalidCoordinatesRejectedBeforeRemoteCalls ==
    \A r \in Requests :
        frame[r].request # None =>
          LET f == frame[r]
              request == f.request[1]
          IN  /\ OutOfRange(request)
                   => /\ f.calls = <<>>
                      /\ f.pc \in {"validate", "done"}
                      /\ f.pc = "done"
                           => /\ Resp(f).status_code = 400
                              /\ Resp(f).detail \in
                                   {Some(InvalidLatitude), Some(InvalidLongitude)}
              /\ ~OutOfRange(request) /\ f.pc \notin {"validate", "query"}
                   => /\ f.calls # <<>>
                      /\ f.calls[1] = "size"
                      /\ f.pc = "done"
                           => Resp(f).detail \notin
                                {Some(InvalidLatitude), Some(InvalidLongitude)}

C3_Witness ==
    \E r \in Requests :
        /\ Done(r)
        /\ frame[r].request[1].latitude = LatMax + 1
        /\ frame[r].request[1].longitude = LonMax
        /\ Resp(frame[r]).status_code = 400
        /\ frame[r].calls = <<>>

\* C4: the label is the threshold table's, first match winning: below 0.2
\* Severe Stress / Bare Soil, below 0.4 Stressed Vegetation, below 0.6
\* Moderate Health, below 0.8 Healthy, otherwise Very Healthy; 0.2 gives
\* Stressed Vegetation and 0.8 gives Very Healthy.
C4_LabelMatchesThresholdTable ==
    ret # None =>
      LET mean == arg[1]["NDVI_mean"][1]
          res == ret[1]
      IN  /\ res.ok
          /\ res.mean_ndvi = Some(mean)
          /\ res.health_status = "Severe Stress / Bare Soil" <=> mean < 20
          /\ res.health_status = "Stressed Vegetation"
               <=> (20 <= mean /\ mean < 40)
          /\ res.health_status = "Moderate Health"
               <=> (40 <= mean /\ mean < 60)
          /\ res.health_status = "Healthy" <=> (60 <= mean /\ mean < 80)
          /\ res.health_status = "Very Healthy" <=> mean >= 80

C4_Witness ==
    /\ ret # None
    /\ arg[1]["NDVI_mean"] = Some(20)
    /\ ret[1].health_status = "Stressed Vegetation"

MeanMissing(ndvi_stats) ==
    "NDVI_mean" \notin DOMAIN ndvi_stats \/ ndvi_stats["NDVI_mean"] = None

\* C5: when extract succeeds and the statistics carry no mean (absent, or
\* present as None) the stats operation succeeds with mean 0 and the label
\* Severe Stress / Bare Soil; every successful stats record has its four
\* statistics present and one of the five labels.
C5_MissingMeanClassifiedAsZero ==
    \A r \in Requests :
        Done(r) /\ Op(r) = "stats" /\ frame[r].image_url # None
        => LET f == frame[r]
           IN  /\ MeanMissing(f.ndvi_stats[1])
                    => /\ Resp(f).status_code = 200
                       /\ Resp(f).record # None
                       /\ Resp(f).record[1].ndvi_stats.mean_ndvi = Some(0)
                       /\ Resp(f).record[1].ndvi_stats.health_status
                            = "Severe Stress / Bare Soil"
               /\ Resp(f).record # None
                    => LET s == Resp(f).record[1].ndvi_stats
                       IN  /\ s.mean_ndvi # None /\ s.min_ndvi # None
                           /\ s.max_ndvi # None /\ s.std_ndvi # None
                           /\ s.health_status \in Labels

\* C6: a successful download_and_convert_image returns a picture of exactly
\* width x height pixels in mode RGB, showing the whole decoded picture,
\* resampled exactly when the decoded size differs from the target, in a
\* stream positioned at offset 0.
C6_NormalizedImageHasTargetSizeAndRGB ==
    ret # None /\ ret[1].ok =>
      LET a == arg[1]
          content == a.net.content
          out == ret[1].output
      IN  /\ out.image.w = a.width /\ out.image.h = a.height
          /\ out.image.mode = "RGB"
          /\ out.image.box = <<content.w, content.h>>
          /\ out.image.resampled
               <=> (<<content.w, content.h>> # <<a.width, a.height>>)
          /\ out.format = "JPEG"
          /\ out.pos = 0

C6_Witness ==
    /\ ret # None /\ ret[1].ok
    /\ arg[1].net.content.mode = "P"
    /\ arg[1].net.content.w = 1
    /\ arg[1].width = DefaultWidth /\ arg[1].height = DefaultHeight
    /\ ret[1].output.image.resampled

\* C7: a request in which a step failed ends with one failure response that
\* carries no image bytes, statistics or record; a request in which no step
\* failed ends with a complete success; no remote call is issued twice.
C7_RequestSucceedsOrFailsWhole ==
    \A r \in Requests :
        LET f == frame[r]
        IN  /\ Len(f.raised) <= 1
            /\ NoDuplicates(f.calls)
            /\ f.raised # <<>>
                 => /\ f.pc = "done"
                    /\ Resp(f).status_code >= 400
                    /\ Resp(f).detail # None
                    /\ Resp(f).body = None
                    /\ Resp(f).x_ndvi_stats = None
                    /\ Resp(f).record = None
            /\ f.pc = "done" /\ f.raised = <<>>
                 => /\ Resp(f).status_code = 200
                    /\ Resp(f).detail = None
                    /\ f.size # None /\ f.band_names # None
                    /\ f.ndvi_stats # None /\ f.image_url # None
                    /\ Op(r) = "image"
                         => /\ Resp(f).body # None
                            /\ Resp(f).x_ndvi_stats = f.ndvi_stats
                            /\ Resp(f).record = None
                    /\ Op(r) = "stats"
                         => /\ Resp(f).record # None
                            /\ Resp(f).body = None

C7_Witness ==
    \E r \in Requests :
        /\ Done(r)
        /\ Op(r) = "image"
        /\ "requests.get" \in Range(frame[r].calls)
        /\ frame[r].raised # <<>>
        /\ Resp(frame[r]).status_code = 500

\* C8: the download is issued only after get_ndvi_image_url has returned an
\* image reference, and asks for that reference; the stats operation never
\* downloads, and its record is made of the coordinates, the buffer, the
\* period and the statistics alone.
C8_DownloadFollowsExtractAndStatsSkipsIt ==
    \A r \in Requests :
        LET f == frame[r]
        IN  /\ "requests.get" \in Range(f.calls)
                 => /\ Op(r) = "image"
                    /\ f.image_url # None
                    /\ "getThumbURL" \in Range(f.calls)
                    /\ IndexOf(f.calls, "getThumbURL")
                         < IndexOf(f.calls, "requests.get")
                    /\ ~f.answers[4].fails
                    /\ f.fetched = Some(f.answers[4].value)
            /\ f.request # None /\ Op(r) = "stats"
                 => /\ "requests.get" \notin Range(f.calls)
                    /\ f.fetched = None
                    /\ f.pc = "done" /\ Resp(f).record # None
                         => LET rec == Resp(f).record[1]
                                q == f.request[1]
                            IN  /\ rec.location =
                                     [latitude |-> q.latitude,
                                      longitude |-> q.longitude,
                                      buffer_distance_m |-> q.buffer_distance]
                                /\ rec.ndvi_stats.analysis_period_days
                                     = q.days_back
                                /\ Resp(f).body = None

C8_Witness ==
    \E r \in Requests :
        /\ Done(r)
        /\ Op(r) = "image"
        /\ Resp(frame[r]).status_code = 200
        /\ frame[r].fetched = Some("thumb/2")
        /\ frame[r].image_url = Some("thumb/2")

\* C9: the statistics reported by a successful stats operation satisfy
\* min <= mean <= max and a standard deviation >= 0, with mean, min and max
\* in [-1, 1], whatever the provider returned, absent entries included.
C9_ReportedStatisticsAreOrdered ==
    \A r \in Requests :
        Done(r) /\ Resp(frame[r]).record # None
        => LET s == Resp(frame[r]).record[1].ndvi_stats
               InUnit(x) == x # None => (-100 <= x[1] /\ x[1] <= 100)
           IN  /\ s.min_ndvi # None /\ s.mean_ndvi # None
                    => s.min_ndvi[1] <= s.mean_ndvi[1]
               /\ s.mean_ndvi # None /\ s.max_ndvi # None
                    => s.mean_ndvi[1] <= s.max_ndvi[1]
               /\ s.std_ndvi # None => s.std_ndvi[1] >= 0
               /\ InUnit(s.mean_ndvi) /\ InUnit(s.min_ndvi)
               /\ InUnit(s.max_ndvi)

RECURSIVE Run(_, _)
\* the request run on its own, given the answers it is to receive
Run(f, answers) ==
    IF f.pc = "validate" THEN Run(ValidateStep(f), answers)
    ELSE IF f.pc = "classify" THEN Run(ClassifyStep(f), answers)
    ELSE IF f.pc = "done" \/ answers = <<>> THEN f
    ELSE LET a == Head(answers)
             rest == Tail(answers)
         IN  CASE f.pc = "query" -> Run(QueryStep(f, a), rest)
               [] f.pc = "bands" -> Run(BandNamesStep(f, a), rest)
               [] f.pc = "reduce" -> Run(ReduceStep(f, a), rest)
               [] f.pc = "thumb" -> Run(ThumbStep(f, a), rest)
               [] f.pc = "download" -> Run(DownloadStep(f, a), rest)

\* C10: whatever the interleaving, a request ends with the response it
\* would have had running alone with the same answers; the provider is
\* initialized once, before any request is served, and no request changes
\* that.
C10_RequestsDoNotInterfere ==
    \A r \in Requests :
        frame[r].request # None
        => /\ phase = "serving"
           /\ ee_initialized = 1
           /\ Done(r)
                => frame[r].response
                     = Run(Arrive(frame[r].request[1]),
                           frame[r].answers).response

C10_Witness ==
    \E r, q \in Requests :
        /\ r # q
        /\ Done(r) /\ Done(q)
        /\ Op(r) = "stats" /\ Op(q) = "stats"
        /\ frame[r].ndvi_stats = Some(FullStats)
        /\ frame[q].ndvi_stats = Some(MaskedStats)
        /\ Resp(frame[r]).status_code = 200
        /\ Resp(frame[q]).status_code = 500

=============================================================================
